---- MODULE Spec2Model ----
(***************************************************************************)
(* Model of the text-rewriting engine of cover.py: the brace matcher, the  *)
(* fraction extractor, the parenthesization policy, the fraction rewriter  *)
(* and the spacing normalizer.                                             *)
(*                                                                         *)
(* A string is a sequence of Unicode code points (integers).  Positions    *)
(* are 0-based as in the source: text[i] of the source is text[i + 1]      *)
(* here, and the slice text[a:b] is SubSeq(text, a + 1, b).                *)
(***************************************************************************)
EXTENDS Integers, Sequences, FiniteSets, TLC

VARIABLES
    pc,               \* position of the driver: which call is next
    arg_text,         \* string argument of the function under call
    arg_pos,          \* start_pos argument of find_matching_brace
    ret,              \* value returned by the function under call
    ret_again,        \* add_spacing_around_dollars applied to its own result
    original_text,    \* perform_conversion: the text handed to the engine
    stack,            \* activation records of latex_frac_to_typst_slash
    returned,         \* value of the last return of latex_frac_to_typst_slash
    raised,           \* find_matching_brace has raised ValueError in this run
    text_after_frac,  \* perform_conversion: result of the fraction rewriter
    final_text        \* perform_conversion: result of the spacing normalizer

vars == <<pc, arg_text, arg_pos, ret, ret_again, original_text, stack,
          returned, raised, text_after_frac, final_text>>

harness_vars == <<arg_text, arg_pos, ret, ret_again>>

engine_vars == <<original_text, stack, returned, raised, text_after_frac,
                 final_text>>

----------------------------------------------------------------------------
(* Code points.                                                            *)

TAB == 9

NEWLINE == 10

SPACE == 32

DOLLAR == 36

LPAREN == 40

RPAREN == 41

STAR == 42

PLUS == 43

MINUS == 45

SLASH == 47

BACKSLASH == 92

LETTER_A == 97

LETTER_B == 98

LETTER_C == 99

LETTER_F == 102

LETTER_R == 114

LBRACE == 123

RBRACE == 125

CHINESE_FIRST == 19968

CHINESE_LAST == 40869

\* The range test without its lower end.
CHINESE_CHAR_RANGE_no_lower_end(ch) == ch <= CHINESE_LAST

\* CHINESE_CHAR_RANGE = r'[\u4e00-\u9fa5]'
CHINESE_CHAR_RANGE(ch) == ch >= CHINESE_FIRST /\ ch <= CHINESE_LAST

\* OPERATORS_NEEDING_PARENS = {'+', '-', '*', '/'}
OPERATORS_NEEDING_PARENS == {PLUS, MINUS, STAR, SLASH}

\* The literal '\\frac'.
FRAC == <<BACKSLASH, LETTER_F, LETTER_R, LETTER_A, LETTER_C>>

\* What \s of a str pattern and str.strip() take for whitespace (ASCII part).
IsSpace(ch) == ch \in {TAB, NEWLINE, 11, 12, 13, SPACE}

----------------------------------------------------------------------------
(* String primitives of the source language.                               *)

\* text[a:b] for 0 <= a, b
Slice(text, a, b) == SubSeq(text, a + 1, IF b > Len(text) THEN Len(text) ELSE b)

\* text[a:]
SliceFrom(text, a) == SubSeq(text, a + 1, Len(text))

\* text[i:].startswith(tok)
StartsWithAt(text, i, tok) ==
    /\ i + Len(tok) <= Len(text)
    /\ SubSeq(text, i + 1, i + Len(tok)) = tok

\* text.find(tok): the least index of an occurrence, or -1
Find(text, tok) ==
    LET occ == {i \in 0..Len(text) : StartsWithAt(text, i, tok)}
    IN  IF occ = {} THEN -1
        ELSE CHOOSE i \in occ : \A j \in occ : i <= j

\* tok in text
Contains(text, tok) == Find(text, tok) # -1

\* ch in text
HasChar(text, ch) == \E i \in 1..Len(text) : text[i] = ch

\* The index at which a greedy \s* starting at index i stops.
RECURSIVE SkipSpaces(_, _)
SkipSpaces(text, i) ==
    IF i < Len(text) /\ IsSpace(text[i + 1])
    THEN SkipSpaces(text, i + 1)
    ELSE i

\* expression.strip()
Strip(text) ==
    LET keep == {i \in 1..Len(text) : ~IsSpace(text[i])}
    IN  IF keep = {} THEN <<>>
        ELSE LET lo == CHOOSE i \in keep : \A j \in keep : i <= j
                 hi == CHOOSE i \in keep : \A j \in keep : j <= i
             IN  SubSeq(text, lo, hi)

----------------------------------------------------------------------------
(* add_spacing_around_dollars                                              *)

\* re.sub(rf'({CHINESE_CHAR_RANGE})\$', r'\1 $', text), scanning from index i
RECURSIVE SubChineseDollar(_, _)
SubChineseDollar(text, i) ==
    IF i >= Len(text) THEN <<>>
    ELSE IF /\ i + 1 < Len(text)
            /\ CHINESE_CHAR_RANGE(text[i + 1])
            /\ text[i + 2] = DOLLAR
         THEN <<text[i + 1], SPACE, DOLLAR>> \o SubChineseDollar(text, i + 2)
         ELSE <<text[i + 1]>> \o SubChineseDollar(text, i + 1)

\* re.sub(rf'\$({CHINESE_CHAR_RANGE})', r'$ \1', text), scanning from index i
RECURSIVE SubDollarChinese(_, _)
SubDollarChinese(text, i) ==
    IF i >= Len(text) THEN <<>>
    ELSE IF /\ i + 1 < Len(text)
            /\ text[i + 1] = DOLLAR
            /\ CHINESE_CHAR_RANGE(text[i + 2])
         THEN <<DOLLAR, SPACE, text[i + 2]>> \o SubDollarChinese(text, i + 2)
         ELSE <<text[i + 1]>> \o SubDollarChinese(text, i + 1)

\* The first substitution alone.
add_spacing_first_pass_only(text) == SubChineseDollar(text, 0)

add_spacing_around_dollars(text) ==
    SubDollarChinese(SubChineseDollar(text, 0), 0)

----------------------------------------------------------------------------
(* find_matching_brace                                                     *)

\* The for loop of find_matching_brace from index i with the given depth:
\* the index returned, or -1.
RECURSIVE BraceLoop(_, _, _)
BraceLoop(text, i, depth) ==
    IF i >= Len(text) THEN -1
    ELSE IF text[i + 1] = LBRACE THEN BraceLoop(text, i + 1, depth + 1)
    ELSE IF text[i + 1] = RBRACE
         THEN IF depth - 1 = 0 THEN i
              ELSE BraceLoop(text, i + 1, depth - 1)
    ELSE BraceLoop(text, i + 1, depth)

\* The first '}' after start_pos, whatever the depth.
find_first_closing_brace(text, start_pos) ==
    IF start_pos >= Len(text) \/ text[start_pos + 1] # LBRACE
    THEN [raises |-> TRUE, pos |-> -1]
    ELSE LET closers == {i \in start_pos..(Len(text) - 1) : text[i + 1] = RBRACE}
         IN  [raises |-> FALSE,
              pos |-> IF closers = {} THEN -1
                      ELSE CHOOSE i \in closers : \A j \in closers : i <= j]

\* [raises |-> TRUE] stands for the ValueError; otherwise pos is the result.
find_matching_brace(text, start_pos) ==
    IF start_pos >= Len(text) \/ text[start_pos + 1] # LBRACE
    THEN [raises |-> TRUE, pos |-> -1]
    ELSE [raises |-> FALSE, pos |-> BraceLoop(text, start_pos, 0)]

----------------------------------------------------------------------------
(* extract_frac_arguments                                                  *)

\* re.search(r'\\frac\s*\{', text): the leftmost match, as [found, start, end]
\* with end the index just past the matched '{'.
FracSearch(text) ==
    LET braceAt(i) == SkipSpaces(text, i + Len(FRAC))
        hits == {i \in 0..Len(text) :
                    /\ StartsWithAt(text, i, FRAC)
                    /\ braceAt(i) < Len(text)
                    /\ text[braceAt(i) + 1] = LBRACE}
    IN  IF hits = {} THEN [found |-> FALSE, start |-> -1, end |-> -1]
        ELSE LET s == CHOOSE i \in hits : \A j \in hits : i <= j
             IN  [found |-> TRUE, start |-> s, end |-> braceAt(s) + 1]

\* re.match(r'\s*\{', rest): anchored at index 0 of rest, so a match starts
\* at 0 whatever whitespace it skips.
DenominatorStartMatch(rest) ==
    LET j == SkipSpaces(rest, 0)
    IN  IF j < Len(rest) /\ rest[j + 1] = LBRACE
        THEN [found |-> TRUE, start |-> 0, end |-> j + 1]
        ELSE [found |-> FALSE, start |-> -1, end |-> -1]

\* None of the source is [found |-> FALSE]; raises records a ValueError of
\* find_matching_brace caught on the way.
NoFrac(r) ==
    [found |-> FALSE, numerator |-> <<>>, denominator |-> <<>>,
     end_pos |-> -1, raises |-> r]

extract_frac_arguments(text) ==
    LET frac_match == FracSearch(text)
    IN  IF ~frac_match.found THEN NoFrac(FALSE)
        ELSE
        LET brace_start == frac_match.end - 1
            num == find_matching_brace(text, brace_start)
            numerator_end == num.pos
        IN  IF num.raises THEN NoFrac(TRUE)
            ELSE IF numerator_end = -1 THEN NoFrac(FALSE)
            ELSE
            LET numerator == Slice(text, brace_start + 1, numerator_end)
                denominator_start_match ==
                    DenominatorStartMatch(SliceFrom(text, numerator_end + 1))
            IN  IF ~denominator_start_match.found THEN NoFrac(FALSE)
                ELSE
                LET denominator_start ==
                        numerator_end + 1 + denominator_start_match.start
                    den == find_matching_brace(text, denominator_start)
                    denominator_brace_pos == den.pos
                IN  IF den.raises THEN NoFrac(TRUE)
                    ELSE IF denominator_brace_pos = -1 THEN NoFrac(FALSE)
                    ELSE [found |-> TRUE,
                          numerator |-> numerator,
                          denominator |->
                              Slice(text, denominator_start + 1,
                                    denominator_brace_pos),
                          end_pos |-> denominator_brace_pos,
                          raises |-> FALSE]

----------------------------------------------------------------------------
(* needs_parentheses                                                       *)

\* The for loop over enumerate(expr) from index i with the given balance:
\* TRUE when it executes `return False`.
RECURSIVE BalanceLoop(_, _, _)
BalanceLoop(expr, i, balance) ==
    IF i >= Len(expr) THEN FALSE
    ELSE IF expr[i + 1] = LPAREN THEN BalanceLoop(expr, i + 1, balance + 1)
    ELSE IF expr[i + 1] = RPAREN
         THEN IF balance - 1 = 0 /\ i = Len(expr) - 1 THEN TRUE
              ELSE BalanceLoop(expr, i + 1, balance - 1)
    ELSE BalanceLoop(expr, i + 1, balance)

needs_parentheses(expression) ==
    LET expr == Strip(expression)
    IN  IF expr = <<>> THEN FALSE
        ELSE IF /\ expr[1] = LPAREN
                /\ expr[Len(expr)] = RPAREN
                /\ BalanceLoop(expr, 0, 0)
             THEN FALSE
        ELSE IF \/ \E op \in OPERATORS_NEEDING_PARENS : HasChar(expr, op)
                \/ HasChar(expr, SPACE)
             THEN TRUE
        ELSE FALSE

----------------------------------------------------------------------------
(* Inputs.                                                                 *)

\* Longest string drawn character by character.
MaxLen == 5

\* Longest string drawn token by token, '\frac' being one token.
MaxTokens == 6

\* All strings over an alphabet of at most n characters.
Strings(alphabet, n) == UNION {[1..k -> alphabet] : k \in 0..n}

\* ''.join(parts)
RECURSIVE Join(_)
Join(parts) ==
    IF parts = <<>> THEN <<>> ELSE Head(parts) \o Join(Tail(parts))

BraceAlphabet == {LBRACE, RBRACE, LETTER_A}

ParenAlphabet == {LPAREN, RPAREN, PLUS, LETTER_A, SPACE}

\* Both ends of the ideograph range, their outer neighbours, '$' and ' '.
SpacingAlphabet ==
    {CHINESE_FIRST - 1, CHINESE_FIRST, CHINESE_LAST, CHINESE_LAST + 1,
     DOLLAR, SPACE}

FracTokens == {FRAC, <<LBRACE>>, <<RBRACE>>, <<SPACE>>, <<LETTER_A>>}

\* All strings of at most n tokens.
TokenStrings(n) == {Join(ts) : ts \in Strings(FracTokens, n)}

\* Expressions of TEST 2 of test_core_functions.py, and '(a)+(b)', 'a\tb'.
ParenExamples ==
    {<<LPAREN, LETTER_A, RPAREN, LPAREN, LETTER_B, RPAREN>>,
     <<LPAREN, LETTER_A, PLUS, LETTER_B, RPAREN>>,
     <<LETTER_A, STAR, LETTER_B>>,
     <<LPAREN, LETTER_A, RPAREN, PLUS, LPAREN, LETTER_B, RPAREN>>,
     <<LPAREN, LETTER_A, RPAREN, SLASH, LPAREN, LETTER_B, RPAREN>>,
     <<LETTER_A, TAB, LETTER_B>>,
     <<SPACE, LPAREN, LETTER_A, MINUS, LETTER_B, RPAREN, NEWLINE>>}

----------------------------------------------------------------------------
(* Calls of the leaf functions on drawn arguments.                         *)

EngineIdle ==
    /\ original_text = <<>>
    /\ stack = <<>>
    /\ returned = <<>>
    /\ raised = FALSE
    /\ text_after_frac = <<>>
    /\ final_text = <<>>

HarnessIdle ==
    /\ arg_text = <<>>
    /\ arg_pos = 0
    /\ ret = <<>>
    /\ ret_again = <<>>

InitBrace ==
    /\ pc = "call_find_matching_brace"
    /\ arg_text \in Strings(BraceAlphabet, MaxLen)
    /\ arg_pos \in 0..(Len(arg_text) + 1)
    /\ ret = <<>>
    /\ ret_again = <<>>
    /\ EngineIdle

CallFindMatchingBrace ==
    /\ pc = "call_find_matching_brace"
    /\ ret' = find_matching_brace(arg_text, arg_pos)
    /\ pc' = "done"
    /\ UNCHANGED <<arg_text, arg_pos, ret_again>>
    /\ UNCHANGED engine_vars

SpecBrace == InitBrace /\ [][CallFindMatchingBrace]_vars

InitParens ==
    /\ pc = "call_needs_parentheses"
    /\ arg_text \in Strings(ParenAlphabet, MaxLen) \cup ParenExamples
    /\ arg_pos = 0
    /\ ret = <<>>
    /\ ret_again = <<>>
    /\ EngineIdle

CallNeedsParentheses ==
    /\ pc = "call_needs_parentheses"
    /\ ret' = needs_parentheses(arg_text)
    /\ pc' = "done"
    /\ UNCHANGED <<arg_text, arg_pos, ret_again>>
    /\ UNCHANGED engine_vars

SpecParens == InitParens /\ [][CallNeedsParentheses]_vars

InitExtract ==
    /\ pc = "call_extract_frac_arguments"
    /\ arg_text \in TokenStrings(MaxTokens)
    /\ arg_pos = 0
    /\ ret = <<>>
    /\ ret_again = <<>>
    /\ EngineIdle

CallExtractFracArguments ==
    /\ pc = "call_extract_frac_arguments"
    /\ ret' = extract_frac_arguments(arg_text)
    /\ pc' = "done"
    /\ UNCHANGED <<arg_text, arg_pos, ret_again>>
    /\ UNCHANGED engine_vars

SpecExtract == InitExtract /\ [][CallExtractFracArguments]_vars

InitSpacing ==
    /\ pc = "call_add_spacing"
    /\ arg_text \in Strings(SpacingAlphabet, MaxLen)
    /\ arg_pos = 0
    /\ ret = <<>>
    /\ ret_again = <<>>
    /\ EngineIdle

CallAddSpacing ==
    /\ pc = "call_add_spacing"
    /\ ret' = add_spacing_around_dollars(arg_text)
    /\ pc' = "call_add_spacing_again"
    /\ UNCHANGED <<arg_text, arg_pos, ret_again>>
    /\ UNCHANGED engine_vars

CallAddSpacingAgain ==
    /\ pc = "call_add_spacing_again"
    /\ ret_again' = add_spacing_around_dollars(ret)
    /\ pc' = "done"
    /\ UNCHANGED <<arg_text, arg_pos, ret>>
    /\ UNCHANGED engine_vars

NextSpacing == CallAddSpacing \/ CallAddSpacingAgain

SpecSpacing == InitSpacing /\ [][NextSpacing]_vars

----------------------------------------------------------------------------
(* Claims about the leaf functions.                                        *)

\* '{' minus '}' over text[p..i]
BraceNet(text, p, i) ==
    Cardinality({k \in p..i : text[k + 1] = LBRACE})
        - Cardinality({k \in p..i : text[k + 1] = RBRACE})

\* C6: find_matching_brace(text, p) raises exactly when p is at or past the
\* end of text or text[p] is not '{'; otherwise it returns the least index
\* i > p at which the count of '{' minus '}' over text[p..i] is 0, which
\* holds a '}', and -1 exactly when there is no such index.
Thm_C6_BraceMatcher ==
    pc = "done" =>
        LET zeros == {i \in (arg_pos + 1)..(Len(arg_text) - 1) :
                         BraceNet(arg_text, arg_pos, i) = 0}
        IN  IF arg_pos >= Len(arg_text) \/ arg_text[arg_pos + 1] # LBRACE
            THEN ret.raises
            ELSE /\ ~ret.raises
                 /\ IF zeros = {} THEN ret.pos = -1
                    ELSE /\ ret.pos \in zeros
                         /\ \A j \in zeros : ret.pos <= j
                         /\ arg_text[ret.pos + 1] = RBRACE

\* A match found across a nested group.
Wit_C6_NestedMatch ==
    /\ pc = "done"
    /\ ~ret.raises
    /\ ret.pos > arg_pos
    /\ \E k \in (arg_pos + 1)..(ret.pos - 1) : arg_text[k + 1] = RBRACE

\* C7: add_spacing_around_dollars applied to its own result changes nothing.
Thm_C7_SpacingIdempotent == pc = "done" => ret_again = ret

\* The first application inserted a space and the input already held a
\* space between an ideograph and '$'.
Wit_C7_SpacedAndRespaced ==
    /\ pc = "done"
    /\ Len(ret) > Len(arg_text)
    /\ \E i \in 1..(Len(arg_text) - 2) :
          /\ arg_text[i] = CHINESE_FIRST
          /\ arg_text[i + 1] = SPACE
          /\ arg_text[i + 2] = DOLLAR

Ideograph(ch) == ch \in 19968..40869

\* An ideograph directly beside '$', in either order.
Adjacent(x, y) ==
    \/ Ideograph(x) /\ y = DOLLAR
    \/ x = DOLLAR /\ Ideograph(y)

Adjacencies(text) ==
    {i \in 1..(Len(text) - 1) : Adjacent(text[i], text[i + 1])}

\* text from index i on with one space put into each adjacency.
RECURSIVE SpacedFrom(_, _)
SpacedFrom(text, i) ==
    IF i > Len(text) THEN <<>>
    ELSE <<text[i]>>
            \o (IF i \in Adjacencies(text) THEN <<SPACE>> ELSE <<>>)
            \o SpacedFrom(text, i + 1)

\* C8: the result is the input with exactly one space put between every
\* ideograph (U+4E00..U+9FA5) and an adjacent '$' and nothing else changed;
\* no ideograph is left beside a '$', and the length grows by the number of
\* adjacencies.
Thm_C8_SpacingExact ==
    pc \in {"call_add_spacing_again", "done"} =>
        /\ ret = SpacedFrom(arg_text, 1)
        /\ Adjacencies(ret) = {}
        /\ Len(ret) = Len(arg_text) + Cardinality(Adjacencies(arg_text))

\* Both directions at one '$', and a '$' beside a character just outside
\* the range.
Wit_C8_BothDirections ==
    /\ pc = "done"
    /\ \E i \in 1..(Len(arg_text) - 1) :
          Ideograph(arg_text[i]) /\ arg_text[i + 1] = DOLLAR
    /\ \E i \in 1..(Len(arg_text) - 1) :
          arg_text[i] = DOLLAR /\ Ideograph(arg_text[i + 1])
    /\ \E i \in 1..(Len(arg_text) - 1) :
          arg_text[i] = DOLLAR /\ arg_text[i + 1] = CHINESE_LAST + 1

\* '(' minus ')' over expr[0..i]
ParenNet(expr, i) ==
    Cardinality({k \in 0..i : expr[k + 1] = LPAREN})
        - Cardinality({k \in 0..i : expr[k + 1] = RPAREN})

\* The '(' at the first position is matched by the ')' at the last one.
FullyWrapped(expr) ==
    /\ expr[1] = LPAREN
    /\ expr[Len(expr)] = RPAREN
    /\ ParenNet(expr, Len(expr) - 1) = 0
    /\ \A i \in 0..(Len(expr) - 2) : ParenNet(expr, i) # 0

OperatorCheck(expr) ==
    \E i \in 1..Len(expr) : expr[i] \in {PLUS, MINUS, STAR, SLASH, SPACE}

\* C3: needs_parentheses is false for an empty trimmed expression and for
\* one whose first '(' is matched by its last ')'; every other expression,
\* the early-closing ones included, is decided by the operator check.
Cex_C3_EarlyClosing ==
    pc = "done" =>
        LET expr == Strip(arg_text)
        IN  ret = IF expr = <<>> \/ FullyWrapped(expr) THEN FALSE
                  ELSE OperatorCheck(expr)

\* The extraction the claim describes: whitespace between the two groups is
\* skipped before the denominator's '{' is required.
ExtractSkippingSpaces(text) ==
    LET m == FracSearch(text)
        open1 == m.end - 1
        close1 == find_matching_brace(text, open1).pos
        open2 == SkipSpaces(text, close1 + 1)
        close2 == find_matching_brace(text, open2).pos
    IN  IF ~m.found \/ close1 = -1 THEN NoFrac(FALSE)
        ELSE IF open2 >= Len(text) \/ text[open2 + 1] # LBRACE
             THEN NoFrac(FALSE)
        ELSE IF close2 = -1 THEN NoFrac(FALSE)
        ELSE [found |-> TRUE,
              numerator |-> Slice(text, open1 + 1, close1),
              denominator |-> Slice(text, open2 + 1, close2),
              end_pos |-> close2,
              raises |-> FALSE]

\* C2: extract_frac_arguments skips whitespace between the numerator's '}'
\* and the denominator's '{', and returns the two contents and the index of
\* the denominator's '}'; it returns None only when the '{' is missing or a
\* group is unbalanced.
Cex_C2_SpaceBetweenGroups ==
    pc = "done" =>
        LET want == ExtractSkippingSpaces(arg_text)
        IN  /\ ret.found = want.found
            /\ ret.numerator = want.numerator
            /\ ret.denominator = want.denominator
            /\ ret.end_pos = want.end_pos

----------------------------------------------------------------------------
(* latex_frac_to_typst_slash and perform_conversion.                       *)
(*                                                                         *)
(* An invocation of latex_frac_to_typst_slash is a frame of `stack`; the   *)
(* frame's fields are the invocation's locals and pc is its position:      *)
(*   "entry"             before the test of line 162                       *)
(*   "while"             at the loop test of line 168                      *)
(*   "call_numerator"    in the recursive call of line 180                 *)
(*   "call_denominator"  in the recursive call of line 181                 *)

NewFrame(t) ==
    [text |-> t, pc |-> "entry", pos |-> 0, result |-> <<>>,
     numerator |-> <<>>, denominator |-> <<>>, end_pos |-> 0,
     frac_start |-> 0, numerator_str |-> <<>>, denominator_str |-> <<>>]

Top == stack[Len(stack)]

\* f"({operand})" if needs_parentheses(operand) else operand
Wrap(operand) ==
    IF needs_parentheses(operand)
    THEN <<LPAREN>> \o operand \o <<RPAREN>>
    ELSE operand

\* The cursor set to the offset within the suffix instead of moved by it.
AdvanceCursor_absolute(pos, end_pos) == end_pos + 1

\* pos += end_pos + 1
AdvanceCursor(pos, end_pos) == pos + end_pos + 1

\* What the loop appends when extraction fails: nothing.
FailureTail_dropped(text, pos) == <<>>

\* What the loop appends when extraction fails: text[pos:]
FailureTail(text, pos) == SliceFrom(text, pos)

\* The frames that replace a caller when its recursive call returns value:
\* after line 180 the call of line 181 is entered; after line 181 the loop
\* body runs to its end (lines 183-187).
Resume(caller, value) ==
    IF caller.pc = "call_numerator"
    THEN <<[caller EXCEPT !.numerator = value, !.pc = "call_denominator"],
           NewFrame(caller.denominator)>>
    ELSE LET numerator_str == Wrap(caller.numerator)
             denominator_str == Wrap(value)
         IN  <<[caller EXCEPT
                  !.denominator = value,
                  !.numerator_str = numerator_str,
                  !.denominator_str = denominator_str,
                  !.result = Append(@, numerator_str \o <<SLASH>>
                                           \o denominator_str),
                  !.pos = AdvanceCursor(@, caller.end_pos),
                  !.pc = "while"]>>

\* return value: to the calling invocation, or to line 300.
Return(value) ==
    /\ returned' = value
    /\ IF Len(stack) = 1
       THEN /\ stack' = <<>>
            /\ text_after_frac' = value
            /\ pc' = "add_spacing"
       ELSE /\ stack' = SubSeq(stack, 1, Len(stack) - 2)
                            \o Resume(stack[Len(stack) - 1], value)
            /\ UNCHANGED <<text_after_frac, pc>>

\* perform_conversion, line 300: the call of the rewriter.
StartConversion ==
    /\ pc = "perform_conversion"
    /\ stack' = <<NewFrame(original_text)>>
    /\ pc' = "rewriting"
    /\ UNCHANGED <<original_text, returned, raised, text_after_frac,
                   final_text>>
    /\ UNCHANGED harness_vars

\* Lines 162-163: no '\frac' in text.
FastPath ==
    /\ pc = "rewriting"
    /\ Top.pc = "entry"
    /\ ~Contains(Top.text, FRAC)
    /\ Return(Top.text)
    /\ UNCHANGED <<original_text, raised, final_text>>
    /\ UNCHANGED harness_vars

\* Lines 165-166.
EnterLoop ==
    /\ pc = "rewriting"
    /\ Top.pc = "entry"
    /\ Contains(Top.text, FRAC)
    /\ stack' = [stack EXCEPT ![Len(stack)] =
                    [@ EXCEPT !.result = <<>>, !.pos = 0, !.pc = "while"]]
    /\ UNCHANGED <<pc, original_text, returned, raised, text_after_frac,
                   final_text>>
    /\ UNCHANGED harness_vars

\* Lines 168, 189: the loop test fails.
LoopEnd ==
    /\ pc = "rewriting"
    /\ Top.pc = "while"
    /\ ~(Top.pos < Len(Top.text))
    /\ Return(Join(Top.result))
    /\ UNCHANGED <<original_text, raised, final_text>>
    /\ UNCHANGED harness_vars

\* Lines 169-173, 189: extraction fails.
ExtractFails ==
    /\ pc = "rewriting"
    /\ Top.pc = "while"
    /\ Top.pos < Len(Top.text)
    /\ LET frac_data == extract_frac_arguments(SliceFrom(Top.text, Top.pos))
       IN  /\ ~frac_data.found
           /\ raised' = (raised \/ frac_data.raises)
           /\ Return(Join(Append(Top.result, FailureTail(Top.text, Top.pos))))
    /\ UNCHANGED <<original_text, final_text>>
    /\ UNCHANGED harness_vars

\* Lines 169-180: extraction succeeds, up to the call of line 180.
ExtractSucceeds ==
    /\ pc = "rewriting"
    /\ Top.pc = "while"
    /\ Top.pos < Len(Top.text)
    /\ LET frac_data == extract_frac_arguments(SliceFrom(Top.text, Top.pos))
           frac_start == Find(SliceFrom(Top.text, Top.pos), FRAC)
       IN  /\ frac_data.found
           /\ raised' = (raised \/ frac_data.raises)
           /\ stack' = [stack EXCEPT ![Len(stack)] =
                           [@ EXCEPT
                              !.numerator = frac_data.numerator,
                              !.denominator = frac_data.denominator,
                              !.end_pos = frac_data.end_pos,
                              !.frac_start = frac_start,
                              !.result = Append(@, Slice(Top.text, Top.pos,
                                                    Top.pos + frac_start)),
                              !.pc = "call_numerator"]]
                       \o <<NewFrame(frac_data.numerator)>>
    /\ UNCHANGED <<pc, original_text, returned, text_after_frac, final_text>>
    /\ UNCHANGED harness_vars

\* perform_conversion, line 301.
AddSpacing ==
    /\ pc = "add_spacing"
    /\ final_text' = add_spacing_around_dollars(text_after_frac)
    /\ pc' = "done"
    /\ UNCHANGED <<original_text, stack, returned, raised, text_after_frac>>
    /\ UNCHANGED harness_vars

\* Deepest nesting of fractions in a drawn text.
MaxDepth == 2

\* Operands without a fraction.
Atoms ==
    {<<LETTER_A>>,
     <<LPAREN, LETTER_A, RPAREN>>,
     <<LETTER_A, PLUS, LETTER_B>>}

\* Whitespace between the two groups of a drawn fraction.
Gaps == {<<>>, <<SPACE>>}

\* \frac{n}<gap>{d}
FracOf(n, gap, d) ==
    FRAC \o <<LBRACE>> \o n \o <<RBRACE>> \o gap \o <<LBRACE>> \o d
         \o <<RBRACE>>

\* Atoms and fractions nested at most depth deep, on one side at a time.
RECURSIVE Terms(_)
Terms(depth) ==
    IF depth = 0 THEN Atoms
    ELSE LET inner == Terms(depth - 1)
         IN  inner \cup {FracOf(n, g, a) : n \in inner, g \in Gaps, a \in Atoms}
                   \cup {FracOf(a, g, n) : n \in inner, g \in Gaps, a \in Atoms}

\* What precedes a drawn term: nothing, an ideograph and '$', a bare
\* '\frac', a fraction without its second group.
Prefixes ==
    {<<>>,
     <<CHINESE_FIRST, DOLLAR>>,
     FRAC \o <<SPACE, LETTER_C, SPACE>>,
     FRAC \o <<LBRACE, LETTER_A, RBRACE, LETTER_B>>}

\* What follows a drawn term: nothing, '$' and an ideograph, a second
\* fraction, a fraction whose numerator is never closed, a fraction without
\* its second group and then a whole one.
Suffixes ==
    {<<>>,
     <<DOLLAR, CHINESE_LAST>>,
     FracOf(<<LETTER_A>>, <<>>, <<LETTER_B>>),
     FRAC \o <<LBRACE, LETTER_A>>,
     FRAC \o <<LBRACE, LETTER_A, RBRACE, LETTER_B>>
          \o FracOf(<<LETTER_A>>, <<>>, <<LETTER_B>>)}

Inputs ==
    TokenStrings(MaxTokens)
        \cup {p \o t \o q : p \in Prefixes, t \in Terms(MaxDepth), q \in Suffixes}

Init ==
    /\ pc = "perform_conversion"
    /\ original_text \in Inputs
    /\ stack = <<>>
    /\ returned = <<>>
    /\ raised = FALSE
    /\ text_after_frac = <<>>
    /\ final_text = <<>>
    /\ HarnessIdle

Next ==
    \/ StartConversion
    \/ FastPath
    \/ EnterLoop
    \/ LoopEnd
    \/ ExtractFails
    \/ ExtractSucceeds
    \/ AddSpacing

Spec == Init /\ [][Next]_vars

\* The scheduler runs the one thread of the program until it returns.
FairSpec == Spec /\ WF_vars(Next)

----------------------------------------------------------------------------
(* Claims about the fraction rewriter.                                     *)

\* The invocations waiting in a recursive call.
Callers == {n \in 1..Len(stack) : stack[n].pc \in {"call_numerator", "call_denominator"}}

\* C1: on a successful extraction, what is appended is the text between the
\* cursor and the start of the '\frac' that the extractor matched.
Cex_C1_PrefixUpToMatch ==
    \A n \in Callers :
        LET f == stack[n]
            matched == FracSearch(SliceFrom(f.text, f.pos))
        IN  f.result[Len(f.result)]
                = Slice(f.text, f.pos, f.pos + matched.start)

\* The top invocation is at the loop test and extraction fails at its cursor.
FailsAtCursor ==
    /\ pc = "rewriting"
    /\ Top.pc = "while"
    /\ Top.pos < Len(Top.text)
    /\ ~extract_frac_arguments(SliceFrom(Top.text, Top.pos)).found

\* The conversion is at a step it can take: the driver is before one of its
\* calls, or the innermost invocation is at its entry or at its loop test.
CanStep ==
    \/ pc \in {"perform_conversion", "add_spacing"}
    \/ /\ pc = "rewriting"
       /\ stack # <<>>
       /\ Top.pc \in {"entry", "while"}
       /\ Callers = 1..(Len(stack) - 1)

Cex_C5_NoValueError == ~raised

\* A '/' outside all parentheses.
BareSlash(text) ==
    \E i \in 1..Len(text) : text[i] = SLASH /\ ParenNet(text, i - 1) = 0

Parenthesized(text) == <<LPAREN>> \o text \o <<RPAREN>>

\* C9: an operand whose conversion holds a '/' outside all parentheses is
\* emitted in parentheses.
Cex_C9_NoChainedSlashes ==
    \A n \in 1..Len(stack) :
        LET f == stack[n]
        IN  f.pc = "while" =>
                /\ BareSlash(f.numerator) =>
                      f.numerator_str = Parenthesized(f.numerator)
                /\ BareSlash(f.denominator) =>
                      f.denominator_str = Parenthesized(f.denominator)

FracCount(text) ==
    Cardinality({i \in 0..Len(text) : StartsWithAt(text, i, FRAC)})

\* Every recursive invocation works on the numerator or the denominator of
\* the fraction at its caller's cursor, a strictly shorter text.
CalleesShorter ==
    /\ \A n \in 2..Len(stack) :
          LET caller == stack[n - 1]
              frac_data == extract_frac_arguments(
                               SliceFrom(caller.text, caller.pos))
          IN  /\ frac_data.found
              /\ stack[n].text = IF caller.pc = "call_numerator"
                                 THEN frac_data.numerator
                                 ELSE frac_data.denominator
              /\ Len(stack[n].text) < Len(caller.text)
    /\ Len(stack) <= 1 + FracCount(original_text)

\* An invocation that comes back to its loop test has moved its cursor
\* forward; otherwise its cursor stays.
CursorAdvances ==
    \A n \in 1..Len(stack) :
        (n \in Callers /\ n <= Len(stack')) =>
            IF stack'[n].pc = "while"
            THEN stack'[n].pos > stack[n].pos
            ELSE stack'[n].pos = stack[n].pos

\* A bound on the steps an invocation on a text of length n takes.
StepBound(n) == 2 + 3 * n

\* A bound on the steps an invocation still takes, its pending recursive
\* calls left out.
FrameVariant(f) ==
    LET rest == Len(f.text) - f.pos
    IN  IF f.pc = "entry" THEN StepBound(Len(f.text))
        ELSE IF f.pc = "while" THEN 1 + 3 * rest
        ELSE IF f.pc = "call_numerator"
             THEN StepBound(Len(f.denominator)) + 1
                      + 3 * (rest - (f.end_pos + 1))
        ELSE 1 + 3 * (rest - (f.end_pos + 1))

RECURSIVE StackVariant(_)
StackVariant(frames) ==
    IF frames = <<>> THEN 0
    ELSE FrameVariant(Head(frames)) + StackVariant(Tail(frames))

\* A bound on the steps the conversion still takes.
Variant ==
    IF pc = "perform_conversion" THEN 2 + StepBound(Len(original_text))
    ELSE IF pc = "rewriting" THEN 1 + StackVariant(stack)
    ELSE IF pc = "add_spacing" THEN 1
    ELSE 0

\* C10: the rewriter terminates: every recursive call is on a strictly
\* shorter text, a loop iteration that does not stop moves the cursor
\* forward, and every step lowers a bound on the steps left that is never
\* negative.
Thm_C10_Terminates ==
    /\ []CalleesShorter
    /\ [](Variant >= 0 /\ (pc # "done" => CanStep))
    /\ [][CursorAdvances /\ Variant' < Variant]_vars

\* A nested fraction and then a second fraction have both been converted:
\* the outermost invocation is back at its loop test at the end of its text.
Wit_C10_NestedAndRepeated ==
    /\ pc = "rewriting"
    /\ Len(stack) = 1
    /\ Top.pc = "while"
    /\ Top.pos = Len(Top.text)
    /\ Len(Top.result) >= 4
    /\ FracCount(original_text) >= 3
    /\ ~Contains(Join(Top.result), FRAC)

====
